---------------------------- MODULE Spec2Model ----------------------------
(***************************************************************************)
(* A model of src/app.py, the Streamlit dashboard of trending News &       *)
(* Politics videos: the session cache of main(), the two upstream fetches, *)
(* the view selection and rendering pipeline, and the pure helpers.        *)
(*                                                                         *)
(* Conventions.  A Python str is a sequence of one-character strings       *)
(* (Str below are written <<"P","T">>), except for the closed vocabularies *)
(* (country codes, outlet modes, dictionary keys), which are TLA+ strings. *)
(* A dict is a function whose DOMAIN is its set of keys.  Time is counted  *)
(* in whole hours.                                                         *)
(***************************************************************************)
EXTENDS Integers, Sequences, FiniteSets, TLC

VARIABLES
    now,            \* the wall clock read by main (hours)
    session,        \* st.session_state: a dict from key to value
    run,            \* what the last run of main did (history variable)
    origin,         \* which fetch produced each part of the cache (history)
    views,          \* what the last run of main rendered, per tab
    lookup_in,      \* argument of fetch_channel_info
    lookup_out,     \* its result and the requests it issued
    listing_in,     \* the /videos response given to fetch_trending_videos
    listing_out,    \* the records it returns
    seconds,        \* argument of format_duration
    rendered        \* its result

mainVars    == <<now, session, run, origin, views>>
lookupVars  == <<lookup_in, lookup_out>>
listingVars == <<listing_in, listing_out>>
formatVars  == <<seconds, rendered>>
vars == <<now, session, run, origin, views, lookup_in, lookup_out,
          listing_in, listing_out, seconds, rendered>>

-----------------------------------------------------------------------------
(* Python values *)

\* None where a str is expected (a missing country, a missing url).
None == "None"

\* None as the value of a session_state key.
NoneValue == [py |-> "None"]

\* {} : the empty dict.
EmptyDict == [k \in {} |-> None]

\* A result that has not been computed.
NotRun == [py |-> "not run"]

\* d.get(k, default)
Get(d, k, default) == IF k \in DOMAIN d THEN d[k] ELSE default

Min(a, b) == IF a < b THEN a ELSE b

\* s[i:j] of a sequence, with Python's 0-based, end-exclusive, clamped bounds.
Slice(s, i, j) == SubSeq(s, i + 1, Min(j, Len(s)))

\* The elements of a sequence.
Range(s) == {s[i] : i \in 1..Len(s)}

DigitChars == <<"0", "1", "2", "3", "4", "5", "6", "7", "8", "9">>

\* The decimal digits of a natural number: f"{n:d}" for n >= 0.
RECURSIVE Digits(_)
Digits(n) ==
    IF n < 10 THEN <<DigitChars[n + 1]>>
    ELSE Append(Digits(n \div 10), DigitChars[(n % 10) + 1])

\* f"{n:d}"
FormatD(n) == IF n < 0 THEN <<"-">> \o Digits(-n) ELSE Digits(n)

\* f"{n:02d}" : zero-padded to width 2, the sign counted in the width.
Format02d(n) ==
    IF n < 0 THEN (IF Len(Digits(-n)) < 1 THEN <<"-", "0">> ELSE <<"-">>) \o Digits(-n)
    ELSE IF Len(Digits(n)) < 2 THEN <<"0">> \o Digits(n)
    ELSE Digits(n)

-----------------------------------------------------------------------------
(* format_duration *)

\* Python's // and % round towards minus infinity, as \div and % do.
format_duration(secs) ==
    IF secs >= 3600
    THEN LET h == secs \div 3600
             m == (secs % 3600) \div 60
             s == secs % 60
         IN  FormatD(h) \o <<":">> \o Format02d(m) \o <<":">> \o Format02d(s)
    ELSE LET m == secs \div 60
             s == secs % 60
         IN  FormatD(m) \o <<":">> \o Format02d(s)

-----------------------------------------------------------------------------
(* parse_iso8601_duration *)

IsDigit(c) == \E i \in 1..10 : DigitChars[i] = c

DigitValue(c) == (CHOOSE i \in 1..10 : DigitChars[i] = c) - 1

\* int(s) of a non-empty string of decimal digits.
RECURSIVE IntOfDigits(_)
IntOfDigits(s) ==
    IF Len(s) = 0 THEN 0
    ELSE 10 * IntOfDigits(SubSeq(s, 1, Len(s) - 1)) + DigitValue(s[Len(s)])

\* The first position >= pos of s that holds no digit (Len(s) + 1 if none).
RECURSIVE DigitRunEnd(_, _)
DigitRunEnd(s, pos) ==
    IF pos <= Len(s) /\ IsDigit(s[pos]) THEN DigitRunEnd(s, pos + 1) ELSE pos

\* The optional group (?:(\d+)<letter>)? tried at pos: the digits must be
\* followed by the letter, else the group matches nothing and pos stays.
Unit(s, pos, letter) ==
    LET e == DigitRunEnd(s, pos)
    IN  IF e > pos /\ e <= Len(s) /\ s[e] = letter
        THEN [val |-> IntOfDigits(SubSeq(s, pos, e - 1)), next |-> e + 1]
        ELSE [val |-> 0, next |-> pos]

parse_iso8601_duration(duration) ==
    IF Len(duration) < 2 \/ SubSeq(duration, 1, 2) /= <<"P", "T">>
    THEN 0
    ELSE LET h == Unit(duration, 3, "H")
             m == Unit(duration, h.next, "M")
             s == Unit(duration, m.next, "S")
         IN  h.val * 3600 + m.val * 60 + s.val

-----------------------------------------------------------------------------
(* fetch_trending_videos *)

\* An upstream request that times out, answers non-2xx or is not JSON:
\* requests.get / raise_for_status / resp.json raise.
HttpFailure == [http |-> "failure"]

HttpOk(json) == [http |-> "ok", json |-> json]

\* A call that raised, and a call that returned a value.
Raised == [raised |-> TRUE]

Returned(v) == [raised |-> FALSE, value |-> v]

UpperLetters == <<"A", "B", "C", "D", "E", "F", "G", "H", "I", "J", "K", "L", "M",
                  "N", "O", "P", "Q", "R", "S", "T", "U", "V", "W", "X", "Y", "Z">>

LowerLetters == <<"a", "b", "c", "d", "e", "f", "g", "h", "i", "j", "k", "l", "m",
                  "n", "o", "p", "q", "r", "s", "t", "u", "v", "w", "x", "y", "z">>

LowerChar(c) ==
    IF \E i \in 1..26 : UpperLetters[i] = c
    THEN LowerLetters[CHOOSE i \in 1..26 : UpperLetters[i] = c]
    ELSE c

\* str.lower()
Lower(s) == [i \in 1..Len(s) |-> LowerChar(s[i])]

\* pat in text
Contains(text, pat) ==
    \E i \in 1..(Len(text) - Len(pat) + 1) : SubSeq(text, i, i + Len(pat) - 1) = pat

\* A dict is truthy when it is not empty.
Truthy(d) == DOMAIN d /= {}

\* thumbs.get(a) or thumbs.get(b) or ... or {} over the tiers in order.
RECURSIVE FirstTruthy(_, _)
FirstTruthy(thumbs, tiers) ==
    IF tiers = << >> THEN EmptyDict
    ELSE IF Truthy(Get(thumbs, Head(tiers), EmptyDict))
         THEN thumbs[Head(tiers)]
         ELSE FirstTruthy(thumbs, Tail(tiers))

ThumbnailTiers == <<"maxres", "standard", "high", "medium", "default">>

\* thumb_w / thumb_h < 0.9 for positive integers (the float quotient of two
\* small integers is below the double 0.9 exactly when 10 w < 9 h).
AspectBelowThreshold(w, h) == 10 * w < 9 * h

\* is_vertical of lines 132-136.
IsVertical(thumb_w, thumb_h) ==
    IF thumb_w /= 0 /\ thumb_h /= 0 THEN AspectBelowThreshold(thumb_w, thumb_h) ELSE FALSE

\* tagged_short of lines 142-148.
TaggedShort(title, description) ==
    LET text == Lower(title \o <<" ">> \o description)
    IN  \/ Contains(text, <<"#", "s", "h", "o", "r", "t", "s">>)
        \/ Contains(text, <<"#", "s", "h", "o", "r", "t", " ">>)
        \/ Contains(text, <<" ", "#", "s", "h", "o", "r", "t">>)

\* IsShort with the duration compared by < : a video of exactly 75 seconds is
\* not short by its duration.
IsShortBelow(tagged_short, duration_secs, is_vertical) ==
    tagged_short \/ duration_secs < 75 \/ is_vertical

\* is_short of line 149.
IsShort(tagged_short, duration_secs, is_vertical) ==
    tagged_short \/ duration_secs <= 75 \/ is_vertical

\* int(stats.get("viewCount", 0)) with ValueError mapped to 0.
ViewCount(stats) ==
    LET raw == Get(stats, "viewCount", <<"0">>)
    IN  IF Len(raw) > 0 /\ \A i \in 1..Len(raw) : IsDigit(raw[i])
        THEN IntOfDigits(raw) ELSE 0

\* One pass of the loop body of lines 112-177 for an item that has an id and a
\* publishedAt.  channel_title and url are not modelled.
MakeVideo(item) ==
    LET snippet == Get(item, "snippet", EmptyDict)
        stats   == Get(item, "statistics", EmptyDict)
        details == Get(item, "contentDetails", EmptyDict)
        thumbs  == Get(snippet, "thumbnails", EmptyDict)
        t_obj   == FirstTruthy(thumbs, ThumbnailTiers)
        thumb_w == Get(t_obj, "width", 0)
        thumb_h == Get(t_obj, "height", 0)
        is_vertical   == IsVertical(thumb_w, thumb_h)
        duration_secs == parse_iso8601_duration(Get(details, "duration", << >>))
        title         == Get(snippet, "title", << >>)
        description   == Get(snippet, "description", << >>)
        tagged_short  == TaggedShort(title, description)
    IN  [video_id      |-> item.id,
         title         |-> title,
         description   |-> description,
         channel_id    |-> Get(snippet, "channelId", << >>),
         published_at  |-> snippet.publishedAt.utc,
         view_count    |-> ViewCount(stats),
         duration_sec  |-> duration_secs,
         thumbnail_url |-> Get(t_obj, "url", None),
         is_short      |-> IsShort(tagged_short, duration_secs, is_vertical),
         is_vertical   |-> is_vertical]

\* The loop of lines 111-179 from item i on, videos being the records
\* appended so far.  An item with no id is skipped; an item with an id and no
\* publishedAt makes parse_published_at("") raise ValueError, which ends the
\* call.
RECURSIVE VideosFrom(_, _, _)
VideosFrom(items, i, videos) ==
    IF i > Len(items) THEN Returned(videos)
    ELSE IF Get(items[i], "id", << >>) = << >>
         THEN VideosFrom(items, i + 1, videos)
         ELSE IF "publishedAt" \notin DOMAIN Get(items[i], "snippet", EmptyDict)
              THEN Raised
              ELSE VideosFrom(items, i + 1, Append(videos, MakeVideo(items[i])))

fetch_trending_videos(response) ==
    IF response = HttpFailure THEN Raised
    ELSE VideosFrom(Get(response.json, "items", << >>), 1, << >>)

-----------------------------------------------------------------------------
(* fetch_channel_info *)

\* The distinct elements of list[lo..hi] in the order of their first
\* occurrence (by halves, to keep the evaluation shallow).
RECURSIVE Dedupe(_, _, _)
Dedupe(list, lo, hi) ==
    IF lo > hi THEN << >>
    ELSE IF lo = hi THEN <<list[lo]>>
    ELSE LET mid  == (lo + hi) \div 2
             left == Dedupe(list, lo, mid)
             seen == Range(left)
         IN  left \o SelectSeq(Dedupe(list, mid + 1, hi), LAMBDA x : x \notin seen)

Reverse(s) == [i \in 1..Len(s) |-> s[Len(s) + 1 - i]]

\* UniqueIds without the set: an id occurring twice is sent twice.
UniqueIdsWithRepeats(channel_ids, order) ==
    LET ids == SelectSeq(channel_ids, LAMBDA cid : cid /= << >>)
    IN  IF order = "forward" THEN ids ELSE Reverse(ids)

\* list({cid for cid in channel_ids if cid}): the distinct non-empty ids, in
\* the iteration order of a Python set, which the language leaves open; the
\* orders modelled are the order of first occurrence and its reverse.
UniqueIds(channel_ids, order) ==
    LET ids    == SelectSeq(channel_ids, LAMBDA cid : cid /= << >>)
        firsts == Dedupe(ids, 1, Len(ids))
    IN  IF order = "forward" THEN firsts ELSE Reverse(firsts)

\* for i in range(0, len(unique_ids), 50): chunk = unique_ids[i : i + 50]
RECURSIVE ChunksFrom(_, _)
ChunksFrom(unique_ids, i) ==
    IF i >= Len(unique_ids) THEN << >>
    ELSE <<Slice(unique_ids, i, i + 50)>> \o ChunksFrom(unique_ids, i + 50)

\* ChannelEntry with the country read from the item instead of its snippet:
\* it is never found.
ChannelEntryNoCountry(snip) ==
    LET thumbs   == Get(snip, "thumbnails", EmptyDict)
        logo_obj == FirstTruthy(thumbs, <<"default", "medium", "high">>)
    IN  [country |-> None, logo_url |-> Get(logo_obj, "url", None)]

\* info[cid] of lines 203-214 for one item of a /channels response.
ChannelEntry(snip) ==
    LET thumbs   == Get(snip, "thumbnails", EmptyDict)
        logo_obj == FirstTruthy(thumbs, <<"default", "medium", "high">>)
    IN  [country |-> Get(snip, "country", None), logo_url |-> Get(logo_obj, "url", None)]

\* The upstream /channels endpoint: api.directory maps each existing channel
\* id to its snippet, and the request numbered api.fail_at fails (0: none).
\* The loop of lines 190-214: the requests issued, and whether one raised.
fetch_channel_info(channel_ids, api, order) ==
    IF Len(channel_ids) = 0 THEN [raised |-> FALSE, value |-> EmptyDict, calls |-> << >>]
    ELSE LET chunks == ChunksFrom(UniqueIds(channel_ids, order), 0)
             found  == {cid \in UNION {Range(chunks[j]) : j \in 1..Len(chunks)} :
                            cid \in DOMAIN api.directory}
         IN  IF api.fail_at \in 1..Len(chunks)
             THEN [raised |-> TRUE, calls |-> SubSeq(chunks, 1, api.fail_at)]
             ELSE [raised |-> FALSE,
                   value  |-> [cid \in found |-> ChannelEntry(api.directory[cid])],
                   calls  |-> chunks]

-----------------------------------------------------------------------------
(* Presentation helpers *)

\* The label is returned as the list of its parts.
origin_label(country_code) ==
    IF country_code = "CA" THEN <<"Canadian outlet">>
    ELSE IF country_code = "US" THEN <<"US outlet">>
    ELSE IF country_code = None \/ country_code = "" THEN <<"Global outlet">>
    ELSE <<country_code, " outlet">>

\* channel_info.get(cid, {}).get("country")
CountryOf(channel_info, cid) == Get(Get(channel_info, cid, EmptyDict), "country", None)

\* filter_by_outlet with the records of unknown country dropped from the
\* non-Canadian list.
filter_by_outlet_known(videos, channel_info, mode) ==
    IF mode = "Canadian outlets only"
    THEN SelectSeq(videos, LAMBDA v : CountryOf(channel_info, v.channel_id) = "CA")
    ELSE IF mode = "Global (non-Canadian) outlets"
    THEN SelectSeq(videos, LAMBDA v : CountryOf(channel_info, v.channel_id) \notin {"CA", None})
    ELSE videos

filter_by_outlet(videos, channel_info, mode) ==
    IF mode = "Canadian outlets only"
    THEN SelectSeq(videos, LAMBDA v : CountryOf(channel_info, v.channel_id) = "CA")
    ELSE IF mode = "Global (non-Canadian) outlets"
    THEN SelectSeq(videos, LAMBDA v : CountryOf(channel_info, v.channel_id) /= "CA")
    ELSE videos

\* InsertByViews with the comparison turned round: the sort is ascending.
RECURSIVE InsertByViewsAscending(_, _)
InsertByViewsAscending(sorted, x) ==
    IF sorted = << >> THEN <<x>>
    ELSE IF Head(sorted).view_count <= x.view_count
         THEN <<Head(sorted)>> \o InsertByViewsAscending(Tail(sorted), x)
         ELSE <<x>> \o sorted

\* x placed into a list sorted by view_count descending, behind every element
\* whose view_count is not smaller: the sort is stable.
RECURSIVE InsertByViews(_, _)
InsertByViews(sorted, x) ==
    IF sorted = << >> THEN <<x>>
    ELSE IF Head(sorted).view_count >= x.view_count
         THEN <<Head(sorted)>> \o InsertByViews(Tail(sorted), x)
         ELSE <<x>> \o sorted

\* list.sort(key=lambda v: v["view_count"], reverse=True)
RECURSIVE SortByViews(_, _, _)
SortByViews(list, i, acc) ==
    IF i > Len(list) THEN acc
    ELSE SortByViews(list, i + 1, InsertByViews(acc, list[i]))

\* A list on its way to the screen, with the steps applied to it so far.
Selected(list) == [videos |-> list, steps |-> << >>]

SortStep(p) ==
    [videos |-> SortByViews(p.videos, 1, << >>), steps |-> Append(p.steps, "sort")]

FilterStep(p, channel_info, outlet_mode) ==
    [videos |-> filter_by_outlet(p.videos, channel_info, outlet_mode),
     steps  |-> Append(p.steps, "filter")]

TruncateStep(p, max_items) ==
    [videos |-> Slice(p.videos, 0, max_items), steps |-> Append(p.steps, "truncate")]

\* The card of one video: the strings derived in lines 404-436.
Card(v, rank, channel_info) ==
    [rank     |-> rank,
     video_id |-> v.video_id,
     dur_str  |-> format_duration(v.duration_sec),
     origin   |-> origin_label(CountryOf(channel_info, v.channel_id))]

\* render_video_list with the two first lines exchanged: the list is cut to
\* max_items before it is filtered.
render_video_list_cut_first(p, channel_info, outlet_mode, max_items) ==
    LET shown == FilterStep(TruncateStep(p, max_items), channel_info, outlet_mode)
    IN  [videos |-> shown.videos,
         steps  |-> shown.steps,
         cards  |-> [i \in 1..Len(shown.videos) |-> Card(shown.videos[i], i, channel_info)]]

render_video_list(p, channel_info, outlet_mode, max_items) ==
    LET shown == TruncateStep(FilterStep(p, channel_info, outlet_mode), max_items)
    IN  [videos |-> shown.videos,
         steps  |-> shown.steps,
         cards  |-> [i \in 1..Len(shown.videos) |-> Card(shown.videos[i], i, channel_info)]]

-----------------------------------------------------------------------------
(* main *)

\* A datetime stored in session_state.
At(t) == [utc |-> t]

\* FetchNeeded with the age compared by >= : a fetch exactly 4 hours old counts
\* as expired.
FetchNeededAtTtl(button, last_fetch, now_utc) ==
    \/ button
    \/ last_fetch = NoneValue
    \/ (last_fetch /= NoneValue /\ now_utc - last_fetch.utc >= 4)

\* Lines 476-486: the button, no fetch yet, or a fetch older than 4 hours.
FetchNeeded(button, last_fetch, now_utc) ==
    \/ button
    \/ last_fetch = NoneValue
    \/ (last_fetch /= NoneValue /\ now_utc - last_fetch.utc > 4)

\* Lines 490-492: the listing, then the publisher lookup for its channel ids.
\* stage tells how far the refresh came; calls counts the upstream requests.
Refresh(listing, api) ==
    LET fetched == fetch_trending_videos(listing)
    IN  IF fetched.raised
        THEN [raised |-> TRUE, stage |-> "listing", calls |-> 1]
        ELSE LET videos      == fetched.value
                 channel_ids == [i \in 1..Len(SelectSeq(videos, LAMBDA v : v.channel_id /= << >>)) |->
                                    SelectSeq(videos, LAMBDA v : v.channel_id /= << >>)[i].channel_id]
                 looked      == fetch_channel_info(channel_ids, api, "forward")
             IN  IF looked.raised
                 THEN [raised |-> TRUE, stage |-> "lookup", videos |-> videos,
                       calls |-> 1 + Len(looked.calls)]
                 ELSE [raised |-> FALSE, stage |-> "done", videos |-> videos,
                       channel_info |-> looked.value, calls |-> 1 + Len(looked.calls)]

\* Store with the listing assigned as soon as it is fetched: a lookup that
\* raises leaves the new videos in the entry.
StoreBeforeLookup(state, by, refresh, api, now_utc) ==
    IF refresh.raised
    THEN IF refresh.stage = "lookup"
         THEN [session |-> [videos_data       |-> [videos |-> refresh.videos,
                                                   channel_info |-> EmptyDict],
                            videos_last_fetch |-> state.videos_last_fetch],
               origin  |-> by]
         ELSE [session |-> state, origin |-> by]
    ELSE [session |-> [videos_data       |-> [videos       |-> refresh.videos,
                                              channel_info |-> refresh.channel_info],
                       videos_last_fetch |-> At(now_utc)],
          origin  |-> [videos |-> 1, channel_info |-> 1, videos_last_fetch |-> 1,
                       directory |-> api.directory]]

\* Store with the publisher info merged into the cached one (dict.update)
\* instead of replacing it.
StoreMerged(state, by, refresh, api, now_utc) ==
    IF refresh.raised
    THEN [session |-> state, origin |-> by]
    ELSE [session |-> [videos_data       |->
                           [videos       |-> refresh.videos,
                            channel_info |->
                                IF state.videos_data = NoneValue THEN refresh.channel_info
                                ELSE refresh.channel_info @@ state.videos_data.channel_info],
                       videos_last_fetch |-> At(now_utc)],
          origin  |-> [videos |-> 1, channel_info |-> 1, videos_last_fetch |-> 1,
                       directory |-> api.directory]]

\* Lines 493-497: both keys are assigned only when neither fetch raised.  by
\* tells, for each part of the entry, the fetch that produced it, and the
\* directory the publisher lookup of that fetch was answered from.  A store
\* replaces every part, so the fetches are numbered from the last store: 1 is
\* the fetch that stored last.
Store(state, by, refresh, api, now_utc) ==
    IF refresh.raised
    THEN [session |-> state, origin |-> by]
    ELSE [session |-> [videos_data       |-> [videos       |-> refresh.videos,
                                              channel_info |-> refresh.channel_info],
                       videos_last_fetch |-> At(now_utc)],
          origin  |-> [videos |-> 1, channel_info |-> 1, videos_last_fetch |-> 1,
                       directory |-> api.directory]]

\* Line 518: the records of the "Regular videos" tab.
Regular(videos) == SelectSeq(videos, LAMBDA v : ~v.is_short)

\* Shorts selecting by the thumbnail alone: a record that is short by its tag
\* or its duration is left out.
ShortsByThumbnail(videos) == SelectSeq(videos, LAMBDA v : v.is_vertical)

\* Line 519: the records of the "Shorts" tab.
Shorts(videos) == SelectSeq(videos, LAMBDA v : v.is_short)

\* Lines 517-601: the four lists and their rendering under the outlet filter.
\* subsets keeps the two derived lists of lines 518-519 as main computed them.
Render(videos, channel_info, outlet_mode, now_utc) ==
    LET regular        == Regular(videos)
        shorts         == Shorts(videos)
        recent         == SelectSeq(videos, LAMBDA v : now_utc - v.published_at <= 24)
        recent_regular == SortStep(Selected(SelectSeq(recent, LAMBDA v : ~v.is_short)))
        recent_shorts  == SortStep(Selected(SelectSeq(recent, LAMBDA v : v.is_short)))
    IN  [outlet_mode    |-> outlet_mode,
         subsets        |-> [regular |-> regular, shorts |-> shorts],
         regular        |-> render_video_list(Selected(regular), channel_info, outlet_mode, 15),
         shorts         |-> render_video_list(Selected(shorts), channel_info, outlet_mode, 15),
         recent_regular |-> render_video_list(recent_regular, channel_info, outlet_mode, 15),
         recent_shorts  |-> render_video_list(recent_shorts, channel_info, outlet_mode, 15)]

\* One run of the script: the user opens the page or interacts with it dt
\* hours after the previous run, having pressed the refresh button or not.
Main(button, dt, listing, api, outlet_mode) ==
    LET now_utc      == now + dt
        state0       == IF \/ "videos_data" \notin DOMAIN session
                           \/ "videos_last_fetch" \notin DOMAIN session
                        THEN [videos_data |-> NoneValue, videos_last_fetch |-> NoneValue]
                        ELSE session
        last_fetch   == state0.videos_last_fetch
        fetch_needed == FetchNeeded(button, last_fetch, now_utc)
        refresh      == IF fetch_needed THEN Refresh(listing, api)
                        ELSE [raised |-> FALSE, stage |-> "none", calls |-> 0]
        stored       == IF fetch_needed
                        THEN Store(state0, origin, refresh, api, now_utc)
                        ELSE [session |-> state0, origin |-> origin]
        data         == stored.session.videos_data
        outcome      == IF refresh.raised THEN "raised"
                        ELSE IF data = NoneValue THEN "no data"
                        ELSE "rendered"
    IN  /\ now' = now_utc
        /\ session' = stored.session
        /\ origin' = stored.origin
        /\ run' = [button       |-> button,
                   last_fetch   |-> last_fetch,
                   fetch_needed |-> fetch_needed,
                   calls        |-> refresh.calls,
                   failed       |-> IF refresh.raised THEN refresh.stage ELSE "none",
                   outcome      |-> outcome]
        /\ views' = IF outcome = "rendered"
                    THEN Render(data.videos, data.channel_info, outlet_mode, now_utc)
                    ELSE NotRun

-----------------------------------------------------------------------------
(* The inputs: upstream responses, clicks and the passing of time *)

\* Bounds of the model.
MaxSeed == 2
MaxSmallListing == 1
MaxListing == 23
MaxClock == 7
MaxIds == 120
MaxTokenMinutes == 2
MaxNegSeconds == 3
MaxSmallSeconds == 76

ChannelIdOf(k) == <<"U", "C">> \o Digits(k)

TitleNews == <<"N", "e", "w", "s">>
TitleTagged == <<"L", "i", "v", "e", " ", "#", "S", "h", "o", "r", "t", "s">>
Landscape == [url |-> "landscape.jpg", width |-> 320, height |-> 180]
Portrait == [url |-> "portrait.jpg", width |-> 405, height |-> 720]

\* d with d[k] = v added.
With(d, k, v) == [x \in DOMAIN d \cup {k} |-> IF x = k THEN v ELSE d[x]]

\* Item i of the listing numbered seed.  Listing 1 is regular but for every
\* ninth item and published 8 hours before the clock starts; in listing s > 1
\* every s-th item is a short (by duration, hashtag or thumbnail in turn) and
\* the items are between 8 and 34 hours old.  One item in four names no channel;
\* the view counts repeat, so that ties occur.
GenItem(i, seed) ==
    LET short  == IF seed = 1 THEN i % 9 = 0 ELSE i % seed = 0
        signal == i % 3
        k      == (i + seed) % 4
        age    == IF seed = 1 THEN 8 ELSE 8 + 12 * ((i + seed) % 3) + 2 * ((i + seed) % 2)
        base   == [title       |-> IF short /\ signal = 1 THEN TitleTagged ELSE TitleNews,
                   description |-> << >>,
                   publishedAt |-> At(0 - age),
                   thumbnails  |-> [high |-> IF short /\ signal = 2 THEN Portrait ELSE Landscape]]
    IN  [id             |-> <<"v">> \o Digits(i),
         snippet        |-> IF k = 0 THEN base ELSE With(base, "channelId", ChannelIdOf(k)),
         statistics     |-> [viewCount |-> Digits(((i * 7 + seed) % 5) * 1000)],
         contentDetails |-> [duration |-> IF short /\ signal = 0
                                          THEN <<"P", "T", "4", "5", "S">>
                                          ELSE <<"P", "T", "1", "0", "M">>]]

Listing(n, seed) == HttpOk([items |-> [i \in 1..n |-> GenItem(i, seed)]])

SmallListings == {HttpFailure} \cup {Listing(n, 2) : n \in 0..MaxSmallListing}

LargeListings ==
    {Listing(n, seed) : n \in {MaxListing - 1, MaxListing}, seed \in 1..MaxSeed}

\* The channels the platform knows: some with a country, some without, some
\* ids unknown to it (deleted or restricted accounts).
Directories ==
    { (ChannelIdOf(1) :> [country |-> "CA", thumbnails |-> [default |-> [url |-> "logo1.png"]]])
        @@ (ChannelIdOf(2) :> [country |-> "US"])
        @@ (ChannelIdOf(3) :> [title |-> "no country"]),
      (ChannelIdOf(1) :> [country |-> "CA"]),
      (ChannelIdOf(1) :> [country |-> "GB"]) @@ (ChannelIdOf(2) :> [country |-> "CA"]) }

ChannelApis ==
    {[fail_at |-> 1, directory |-> EmptyDict]}
        \cup {[fail_at |-> 0, directory |-> d] : d \in Directories}

OutletModes == {"All outlets", "Canadian outlets only", "Global (non-Canadian) outlets"}

\* Hours between two runs: at once, within the 4 hours, beyond them.
Elapsed == {0, 2, 5}

-----------------------------------------------------------------------------
(* The specifications *)

InitMain ==
    /\ now = 0
    /\ session = EmptyDict
    /\ run = NotRun
    /\ origin = NotRun
    /\ views = NotRun

IdleLookup == lookup_in = NotRun /\ lookup_out = NotRun

IdleListing == listing_in = NotRun /\ listing_out = NotRun

IdleFormat == seconds = 0 /\ rendered = NotRun

\* The dashboard: runs of main against small upstream responses, the outlet
\* filter left at the first option, which st.radio selects by default.
Init == InitMain /\ IdleLookup /\ IdleListing /\ IdleFormat

RunMain ==
    /\ \E button \in BOOLEAN, dt \in Elapsed, listing \in SmallListings,
          api \in ChannelApis :
            /\ now + dt <= MaxClock
            /\ Main(button, dt, listing, api, "All outlets")
    /\ UNCHANGED <<lookupVars, listingVars, formatVars>>

Next == RunMain

Spec == Init /\ [][Next]_vars

\* A run of the page against listings longer than one page of cards: the
\* first run of a session, or, the page being rendered, the run that follows
\* at once when the user picks another option of the outlet radio, button
\* not pressed, the upstream unreachable meanwhile.
ViewRuns ==
    IF run = NotRun
    THEN [button : BOOLEAN, dt : Elapsed, listing : LargeListings, api : ChannelApis]
    ELSE IF views = NotRun THEN {}
    ELSE {[button |-> FALSE, dt |-> 0, listing |-> HttpFailure,
           api |-> [fail_at |-> 1, directory |-> EmptyDict]]}

RunMainLarge ==
    /\ \E r \in ViewRuns, outlet_mode \in OutletModes :
            /\ now + r.dt <= MaxClock
            /\ views /= NotRun => outlet_mode /= views.outlet_mode
            /\ Main(r.button, r.dt, r.listing, r.api, outlet_mode)
    /\ UNCHANGED <<lookupVars, listingVars, formatVars>>

NextView == RunMainLarge

SpecView == Init /\ [][NextView]_vars

\* fetch_channel_info on its own, for lists of up to MaxIds distinct ids.
\* The ids come once each, or each twice, or with empty ids between them; one
\* channel in three is unknown to the platform.
LookupList(n, shape) ==
    LET ids == [i \in 1..n |-> ChannelIdOf(i)]
    IN  IF shape = "repeated" THEN ids \o ids
        ELSE IF shape = "blanks" THEN << << >> >> \o ids \o << << >> >>
        ELSE ids

LookupInputs ==
    {[channel_ids |-> LookupList(n, shape),
      api         |-> [fail_at   |-> 0,
                       directory |-> [cid \in {ChannelIdOf(i) : i \in {j \in 1..n : j % 3 /= 0}}
                                          |-> [country |-> "CA"]]],
      order       |-> order] :
        n \in 0..MaxIds, shape \in {"once", "repeated", "blanks"},
        order \in {"forward", "backward"}}

InitLookup ==
    /\ lookup_in \in LookupInputs
    /\ lookup_out = NotRun
    /\ InitMain /\ IdleListing /\ IdleFormat

FetchChannelInfo ==
    /\ lookup_out = NotRun
    /\ lookup_out' = fetch_channel_info(lookup_in.channel_ids, lookup_in.api, lookup_in.order)
    /\ UNCHANGED <<lookup_in, mainVars, listingVars, formatVars>>

NextLookup == FetchChannelInfo

SpecLookup == InitLookup /\ [][NextLookup]_vars

\* fetch_trending_videos on its own, for a listing of one item.

TaggedTitles ==
    { <<"#", "S", "h", "o", "r", "t", "s">>,
      <<"a", " ", "#", "S", "H", "O", "R", "T">>,
      <<"#", "s", "h", "o", "r", "t">> }

PlainTitles == { TitleNews, <<"#", "s", "h", "o", "r", "t", "c", "u", "t">>, << >> }

TaggedDescriptions == { <<"#", "s", "h", "o", "r", "t">> }

PlainDescriptions == { << >>, <<"s", "h", "o", "r", "t", "s">> }

\* The duration token of h hours, m minutes and s seconds, absent units left out.
DurationToken(h, m, sec) ==
    <<"P", "T">> \o (IF h > 0 THEN Digits(h) \o <<"H">> ELSE << >>)
                 \o (IF m > 0 THEN Digits(m) \o <<"M">> ELSE << >>)
                 \o (IF sec > 0 THEN Digits(sec) \o <<"S">> ELSE << >>)

GoodTokens ==
    {DurationToken(h, m, sec) : h \in 0..1, m \in 0..MaxTokenMinutes, sec \in {0, 14, 15, 16, 59}}

\* Tokens parse_iso8601_duration does not understand: empty, a day count, no
\* prefix, and a live stream's "P0D".
BadTokens ==
    { << >>, <<"P", "1", "D">>, <<"7", "5", "S">>, <<"P", "0", "D">> }

VerticalThumbnails ==
    { [high |-> Portrait],
      [maxres |-> EmptyDict, medium |-> Portrait],
      [standard |-> [url |-> "t.jpg", width |-> 89, height |-> 100]] }

OtherThumbnails ==
    { EmptyDict,
      [high |-> Landscape],
      [default |-> [url |-> "t.jpg"]],
      [maxres |-> [url |-> "t.jpg", width |-> 0, height |-> 0]],
      [maxres |-> [url |-> "t.jpg", height |-> 720], high |-> Portrait],
      [standard |-> [url |-> "t.jpg", width |-> 9, height |-> 10]] }

RawItems ==
    {[id             |-> id,
      snippet        |-> [title |-> title, description |-> description,
                          channelId |-> ChannelIdOf(1), publishedAt |-> At(0),
                          thumbnails |-> thumbnails],
      statistics     |-> [viewCount |-> <<"1", "2">>],
      contentDetails |-> [duration |-> duration]] :
        id \in {<<"v", "1">>, << >>},
        title \in TaggedTitles \cup PlainTitles,
        description \in TaggedDescriptions \cup PlainDescriptions,
        thumbnails \in VerticalThumbnails \cup OtherThumbnails,
        duration \in GoodTokens \cup BadTokens}

InitListing ==
    /\ listing_in \in {HttpOk([items |-> <<item>>]) : item \in RawItems}
    /\ listing_out = NotRun
    /\ InitMain /\ IdleLookup /\ IdleFormat

FetchTrendingVideos ==
    /\ listing_out = NotRun
    /\ listing_out' = fetch_trending_videos(listing_in)
    /\ UNCHANGED <<listing_in, mainVars, lookupVars, formatVars>>

NextListing == FetchTrendingVideos

SpecListing == InitListing /\ [][NextListing]_vars

\* format_duration on its own.
DurationInputs ==
    ((0 - MaxNegSeconds)..MaxSmallSeconds) \cup (3590..3610) \cup {3725, 7200, 36000, 86399}

InitFormat ==
    /\ seconds \in DurationInputs
    /\ rendered = NotRun
    /\ InitMain /\ IdleLookup /\ IdleListing

FormatDuration ==
    /\ rendered = NotRun
    /\ rendered' = format_duration(seconds)
    /\ UNCHANGED <<seconds, mainVars, lookupVars, listingVars>>

NextFormat == FormatDuration

SpecFormat == InitFormat /\ [][NextFormat]_vars

-----------------------------------------------------------------------------
(* The cache of main *)

\* A snapshot is cached.
HasSnapshot(s) == "videos_data" \in DOMAIN s /\ s.videos_data /= NoneValue

\* No fetch has succeeded yet.
NoFetchYet(s) == "videos_last_fetch" \notin DOMAIN s \/ s.videos_last_fetch = NoneValue

\* C1: a run of main whose refresh fails while a snapshot is cached raises to
\* its caller and leaves both session keys as they were; and a cached snapshot
\* is replaced by nothing but a run whose refresh succeeded.
C1_FailedRefreshKeepsSnapshot ==
    [][ /\ (HasSnapshot(session) /\ run'.failed /= "none")
            => (run'.outcome = "raised" /\ session' = session)
        /\ (HasSnapshot(session) /\ session' /= session)
            => (run'.fetch_needed /\ run'.failed = "none" /\ run'.outcome = "rendered")
      ]_vars

\* A publisher lookup has failed while a snapshot was cached.
C1_Witness ==
    /\ run /= NotRun
    /\ run.failed = "lookup"
    /\ run.last_fetch /= NoneValue
    /\ HasSnapshot(session)

\* C2: a run of main issues upstream requests exactly when no fetch has
\* succeeded yet, the last fetch is more than 4 hours old, or the refresh
\* button was pressed.
C2_FetchOnlyWhenDue ==
    [][ (run'.calls > 0) <=>
            \/ NoFetchYet(session)
            \/ (~NoFetchYet(session) /\ now' - session.videos_last_fetch.utc > 4)
            \/ run'.button
      ]_vars

\* The button forced a fetch inside the 4 hours.
C2_Witness ==
    /\ run /= NotRun
    /\ run.button
    /\ run.last_fetch /= NoneValue
    /\ now - run.last_fetch.utc < 4
    /\ run.calls > 0

\* The channel ids the records of a list refer to.
ChannelIdsOf(videos) == {videos[i].channel_id : i \in 1..Len(videos)} \ {<< >>}

\* C3: the two session keys are absent together, None together or set
\* together; when set, the records, the publisher info and the timestamp were
\* stored by one fetch: the publisher info holds exactly the referenced
\* channels that the lookup of that fetch returned.
C3_WholeSnapshot ==
    /\ ("videos_data" \in DOMAIN session) <=> ("videos_last_fetch" \in DOMAIN session)
    /\ "videos_data" \in DOMAIN session
        => ((session.videos_data = NoneValue) <=> (session.videos_last_fetch = NoneValue))
    /\ HasSnapshot(session)
        => /\ origin /= NotRun
           /\ origin.videos = origin.channel_info
           /\ origin.videos = origin.videos_last_fetch
           /\ session.videos_last_fetch.utc <= now
           /\ DOMAIN session.videos_data.channel_info
                = ChannelIdsOf(session.videos_data.videos) \cap DOMAIN origin.directory

\* A refresh has replaced an earlier snapshot.
C3_Witness ==
    /\ run /= NotRun
    /\ run.fetch_needed
    /\ run.outcome = "rendered"
    /\ run.last_fetch /= NoneValue
    /\ HasSnapshot(session)

-----------------------------------------------------------------------------
(* Publisher info and the views *)

ViewNames == {"regular", "shorts", "recent_regular", "recent_shorts"}

CachedVideos == session.videos_data.videos

CachedChannelInfo == session.videos_data.channel_info

\* The place of a record in the fetched chart.
Position(v) == CHOOSE i \in 1..Len(CachedVideos) : CachedVideos[i].video_id = v.video_id

\* The publisher of v is registered in Canada, as far as the cache knows.
IsCanadian(v) ==
    /\ v.channel_id \in DOMAIN CachedChannelInfo
    /\ CachedChannelInfo[v.channel_id].country = "CA"

PassesOutlet(v, mode) ==
    IF mode = "Canadian outlets only" THEN IsCanadian(v)
    ELSE IF mode = "Global (non-Canadian) outlets" THEN ~IsCanadian(v)
    ELSE TRUE

\* The cached records a tab is about, whatever the outlet filter.
Candidates(name) ==
    {v \in Range(CachedVideos) :
        /\ (name \in {"regular", "recent_regular"}) <=> ~v.is_short
        /\ (name \in {"recent_regular", "recent_shorts"}) => now - v.published_at <= 24}

\* (C4, as stated) every channel id a cached record refers to is a key of the
\* cached publisher info.
C4_EveryPublisherHasEntry ==
    HasSnapshot(session) => ChannelIdsOf(CachedVideos) \subseteq DOMAIN CachedChannelInfo

\* C4, amended: the publisher info holds an entry, with the country of the
\* response, for exactly the referenced channels the lookup returned; a
\* channel missing from the response has no entry and is read, through
\* channel_info.get(cid, {}), as having no country, and every card of a record
\* of such a channel is rendered with the label "Global outlet".
C4_MissingPublisherReadsAsUnknown ==
    HasSnapshot(session) =>
        /\ \A cid \in ChannelIdsOf(CachedVideos) :
              IF cid \in DOMAIN origin.directory
              THEN /\ cid \in DOMAIN CachedChannelInfo
                   /\ CachedChannelInfo[cid].country = Get(origin.directory[cid], "country", None)
              ELSE /\ cid \notin DOMAIN CachedChannelInfo
                   /\ CountryOf(CachedChannelInfo, cid) = None
        /\ run.failed = "none" =>
              /\ run.outcome = "rendered"
              /\ \A name \in ViewNames : \A i \in 1..Len(views[name].videos) :
                    LET cid == views[name].videos[i].channel_id
                    IN  views[name].cards[i].origin =
                            IF cid \in DOMAIN origin.directory /\ "country" \in DOMAIN origin.directory[cid]
                            THEN origin_label(origin.directory[cid].country)
                            ELSE <<"Global outlet">>

\* A record of a channel the lookup did not return is on the screen.
C4_Witness ==
    /\ HasSnapshot(session)
    /\ views /= NotRun
    /\ \E i \in 1..Len(views.shorts.videos) :
          /\ views.shorts.videos[i].channel_id /= << >>
          /\ views.shorts.videos[i].channel_id \notin DOMAIN CachedChannelInfo
          /\ views.shorts.cards[i].origin = <<"Global outlet">>

\* (C6, as stated) the list of the "Regular videos" tab is ordered by
\* view_count descending.
C6_RegularSortedByViews ==
    views /= NotRun =>
        \A i \in 1..(Len(views.regular.videos) - 1) :
            views.regular.videos[i].view_count >= views.regular.videos[i + 1].view_count

\* C6, amended: the list of the "Regular videos" tab holds regular records in
\* the order of the fetched chart; the list of regular uploads of the "Last 24
\* hours" tab is the one ordered by view_count descending.
C6_RegularInChartOrder ==
    views /= NotRun =>
        /\ \A i \in 1..Len(views.regular.videos) : ~views.regular.videos[i].is_short
        /\ \A i \in 1..(Len(views.regular.videos) - 1) :
              Position(views.regular.videos[i]) < Position(views.regular.videos[i + 1])
        /\ \A i \in 1..Len(views.recent_regular.videos) : ~views.recent_regular.videos[i].is_short
        /\ \A i \in 1..(Len(views.recent_regular.videos) - 1) :
              views.recent_regular.videos[i].view_count
                  >= views.recent_regular.videos[i + 1].view_count

\* The "Regular videos" tab shows a record above one with more views.
C6_Witness ==
    /\ views /= NotRun
    /\ Len(views.recent_regular.videos) >= 2
    /\ \E i \in 1..(Len(views.regular.videos) - 1) :
          views.regular.videos[i].view_count < views.regular.videos[i + 1].view_count

\* s is a sublist of the cached records, in their order.
InChartOrder(s) == \A i \in 1..(Len(s) - 1) : Position(s[i]) < Position(s[i + 1])

\* C7: the non-Canadian mode keeps exactly the records whose publisher country
\* is not "CA", those without a country or without an entry included; the
\* Canadian mode keeps exactly the others; the two lists are disjoint, cover
\* the input and keep its order; "All outlets" returns the input.
C7_OutletFilterSplits ==
    HasSnapshot(session) =>
        LET global   == filter_by_outlet(CachedVideos, CachedChannelInfo,
                                         "Global (non-Canadian) outlets")
            canadian == filter_by_outlet(CachedVideos, CachedChannelInfo,
                                         "Canadian outlets only")
        IN  /\ filter_by_outlet(CachedVideos, CachedChannelInfo, "All outlets") = CachedVideos
            /\ Range(global) = {v \in Range(CachedVideos) : ~IsCanadian(v)}
            /\ Range(canadian) = {v \in Range(CachedVideos) : IsCanadian(v)}
            /\ \A v \in Range(CachedVideos) :
                  (\/ v.channel_id \notin DOMAIN CachedChannelInfo
                   \/ CachedChannelInfo[v.channel_id].country = None) => v \in Range(global)
            /\ Len(global) + Len(canadian) = Len(CachedVideos)
            /\ InChartOrder(global)
            /\ InChartOrder(canadian)

\* The non-Canadian list on the screen holds a record whose channel has no
\* entry, one whose channel has no country, and leaves a Canadian one out.
C7_Witness ==
    /\ views /= NotRun
    /\ views.outlet_mode = "Global (non-Canadian) outlets"
    /\ \E i \in 1..Len(views.regular.videos) :
          views.regular.videos[i].channel_id \notin DOMAIN CachedChannelInfo
    /\ \E i \in 1..Len(views.regular.videos) :
          /\ views.regular.videos[i].channel_id \in DOMAIN CachedChannelInfo
          /\ CachedChannelInfo[views.regular.videos[i].channel_id].country = None
    /\ \E v \in Candidates("regular") : IsCanadian(v)

\* The place of a step among the steps applied to a list (0: not applied).
StepIndex(steps, step) ==
    IF \E i \in 1..Len(steps) : steps[i] = step
    THEN CHOOSE i \in 1..Len(steps) : steps[i] = step
    ELSE 0

\* a comes before b in the list of a tab.
Precedes(name, a, b) ==
    IF name \in {"recent_regular", "recent_shorts"}
    THEN \/ a.view_count > b.view_count
         \/ (a.view_count = b.view_count /\ Position(a) < Position(b))
    ELSE Position(a) < Position(b)

\* (C9, as stated) in every rendered list the outlet filter is applied before
\* the sort and before the truncation.
C9_FilterBeforeSortAndTruncate ==
    views /= NotRun =>
        \A name \in ViewNames :
            \A step \in {"sort", "truncate"} :
                StepIndex(views[name].steps, step) /= 0
                    => StepIndex(views[name].steps, "filter")
                           < StepIndex(views[name].steps, step)

\* C9, amended: in every rendered list the outlet filter is applied before the
\* truncation to 15; the lists of the last 24 hours are sorted before they are
\* filtered; and each list shown is the first 15 records, in the order of its
\* tab, of the records of the tab that pass the filter.
C9_FilterBeforeTruncate ==
    views /= NotRun =>
        \A name \in ViewNames :
            LET shown  == views[name].videos
                steps  == views[name].steps
                passed == {v \in Candidates(name) : PassesOutlet(v, views.outlet_mode)}
            IN  /\ 0 < StepIndex(steps, "filter")
                /\ StepIndex(steps, "filter") < StepIndex(steps, "truncate")
                /\ name \in {"recent_regular", "recent_shorts"}
                      => (0 < StepIndex(steps, "sort")
                             /\ StepIndex(steps, "sort") < StepIndex(steps, "filter"))
                /\ Len(shown) = Min(15, Cardinality(passed))
                /\ Range(shown) \subseteq passed
                /\ \A i, j \in 1..Len(shown) : i < j => Precedes(name, shown[i], shown[j])
                /\ \A v \in passed \ Range(shown) :
                      \A i \in 1..Len(shown) : Precedes(name, shown[i], v)

\* A list was cut to 15 after the filter had removed records from it.
C9_Witness ==
    /\ views /= NotRun
    /\ views.outlet_mode /= "All outlets"
    /\ Len(views.regular.videos) = 15
    /\ Cardinality({v \in Candidates("regular") : PassesOutlet(v, views.outlet_mode)}) > 15
    /\ \E v \in Candidates("regular") : ~PassesOutlet(v, views.outlet_mode)

\* C11: the Regular list and the Shorts list main derives from a snapshot
\* partition its records: every record has a boolean is_short, is in exactly
\* one of the two lists, the regular ones being those with is_short false, and
\* the two lists together are as long as the snapshot; every record shown on
\* a tab is a record of the snapshot, is_short included, on the side of the
\* partition its tab belongs to; and a run that picks another outlet option
\* without fetching leaves the cached records and the two lists as they were.
C11_TabsPartitionRecords ==
    /\ [](views /= NotRun =>
            LET regular == views.subsets.regular
                shorts  == views.subsets.shorts
            IN  /\ \A v \in Range(CachedVideos) : v.is_short \in BOOLEAN
                /\ Range(regular) \cup Range(shorts) = Range(CachedVideos)
                /\ Range(regular) \cap Range(shorts) = {}
                /\ Len(regular) + Len(shorts) = Len(CachedVideos)
                /\ Range(regular) = {v \in Range(CachedVideos) : v.is_short = FALSE}
                /\ Range(shorts) = {v \in Range(CachedVideos) : v.is_short = TRUE}
                /\ \A name \in ViewNames :
                      \A i \in 1..Len(views[name].videos) :
                          LET v == views[name].videos[i]
                          IN  /\ v \in Range(CachedVideos)
                              /\ IF name \in {"regular", "recent_regular"}
                                 THEN v \in Range(regular) ELSE v \in Range(shorts))
    /\ [][(views /= NotRun /\ ~run'.fetch_needed) =>
              /\ session'.videos_data.videos = session.videos_data.videos
              /\ views'.subsets = views.subsets]_vars

\* The outlet option was changed on a rendered page whose snapshot has regular
\* records, records that are short by the tag or the duration alone, and
\* records the chosen option hides.
C11_Witness ==
    /\ views /= NotRun
    /\ ~run.fetch_needed
    /\ views.outlet_mode /= "All outlets"
    /\ views.subsets.regular /= << >>
    /\ \E v \in Range(views.subsets.shorts) : ~v.is_vertical
    /\ \E v \in Range(views.subsets.shorts) : v.is_vertical
    /\ \E v \in Range(CachedVideos) : ~PassesOutlet(v, views.outlet_mode)
    /\ views.shorts.videos /= << >>

-----------------------------------------------------------------------------
(* The pure functions *)

\* The sizes of the requests of a lookup.
CallSizes(calls) == [j \in 1..Len(calls) |-> Len(calls[j])]

\* C5: for n distinct non-empty ids fetch_channel_info issues ceil(n / 50)
\* requests of at most 50 ids, every id is sent exactly once, nothing else is
\* sent, and the call returns; 120 ids go out as 50, 50 and 20.
C5_LookupInBatchesOfFifty ==
    lookup_out /= NotRun =>
        LET ids   == Range(lookup_in.channel_ids) \ {<< >>}
            n     == Cardinality(ids)
            calls == lookup_out.calls
            sent  == {<<j, k>> \in (1..Len(calls)) \X (1..50) : k <= Len(calls[j])}
        IN  /\ ~lookup_out.raised
            /\ Len(calls) = (n + 49) \div 50
            /\ \A j \in 1..Len(calls) : Len(calls[j]) >= 1 /\ Len(calls[j]) <= 50
            /\ \A p \in sent : calls[p[1]][p[2]] \in ids
            /\ \A cid \in ids : Cardinality({p \in sent : calls[p[1]][p[2]] = cid}) = 1
            /\ n = 120 => CallSizes(calls) = <<50, 50, 20>>

\* 120 distinct ids, each given twice, went out in three requests.
C5_Witness ==
    /\ lookup_out /= NotRun
    /\ Len(lookup_in.channel_ids) = 240
    /\ Cardinality(Range(lookup_in.channel_ids)) = 120
    /\ CallSizes(lookup_out.calls) = <<50, 50, 20>>

\* The item of the listing given to fetch_trending_videos.
TheItem == listing_in.json.items[1]

\* C8: a fetched record is short exactly when its duration is at most 75
\* seconds, or its title or description carries the hashtag, or its thumbnail
\* is taller than wide by the 0.9 ratio; a thumbnail without width or height
\* does not count as vertical, and a token that does not parse counts as 0
\* seconds, hence as short.
C8_ShortIffAnySignal ==
    (listing_out /= NotRun /\ ~listing_out.raised) =>
        \A i \in 1..Len(listing_out.value) :
            LET v        == listing_out.value[i]
                tagged   == \/ TheItem.snippet.title \in TaggedTitles
                            \/ TheItem.snippet.description \in TaggedDescriptions
                vertical == TheItem.snippet.thumbnails \in VerticalThumbnails
            IN  /\ v.is_short <=> (v.duration_sec <= 75 \/ tagged \/ vertical)
                /\ v.is_vertical <=> vertical
                /\ TheItem.contentDetails.duration \in BadTokens => v.duration_sec = 0
                /\ v.duration_sec <= 75 => v.is_short

\* A record of exactly 75 seconds with no hashtag and a landscape thumbnail
\* was fetched and is short.
C8_Witness ==
    /\ listing_out /= NotRun
    /\ ~listing_out.raised
    /\ Len(listing_out.value) = 1
    /\ listing_out.value[1].duration_sec = 75
    /\ listing_out.value[1].title = TitleNews
    /\ listing_out.value[1].description = << >>
    /\ ~listing_out.value[1].is_vertical
    /\ listing_out.value[1].is_short

TwoDigits(n) == <<DigitChars[(n \div 10) + 1], DigitChars[(n % 10) + 1]>>

\* C10 (as stated): format_duration gives M:SS below one hour, H:MM:SS from
\* one hour on, "1:02:05" for 3725, and for 0 or less a string other than
\* "0:00".
C10_FormatDuration ==
    rendered /= NotRun =>
        /\ (0 < seconds /\ seconds < 3600)
              => rendered = Digits(seconds \div 60) \o <<":">> \o TwoDigits(seconds % 60)
        /\ seconds >= 3600
              => rendered = Digits(seconds \div 3600) \o <<":">>
                                \o TwoDigits((seconds % 3600) \div 60) \o <<":">>
                                \o TwoDigits(seconds % 60)
        /\ seconds = 3725 => rendered = <<"1", ":", "0", "2", ":", "0", "5">>
        /\ seconds <= 0 => rendered /= <<"0", ":", "0", "0">>

=============================================================================
